---- MODULE Spec2Model ----
(***************************************************************************)
(* DELTA DOS (D-S v2.0.pyw): the command dispatcher of DeltaDOSApp.        *)
(*                                                                         *)
(* The Tk main loop runs process_command for every <Return>; each          *)
(* submission starts a daemon thread running execute_command.  Tk widget   *)
(* calls made by a thread are executed one at a time by the main loop, so  *)
(* every widget call is one atomic step; the Python statements between     *)
(* them (reads and writes of self.cwd, os.chdir, Popen) interleave freely. *)
(*                                                                         *)
(* A command line is a sequence of symbols: the symbol " " is one          *)
(* whitespace character, every other symbol is a maximal run of            *)
(* non-whitespace characters (two such symbols are never adjacent).        *)
(* A directory is the sequence of its path components, <<>> the root.      *)
(***************************************************************************)
EXTENDS Integers, Sequences, FiniteSets, TLC

\* ---------------------------------------------------------------- bounds
\* number of lines the input source submits in one run
MaxCmds == 2
\* number of characters of every output text that the typing loop inserts
TypeLen == 1

Workers == 1..MaxCmds

\* ------------------------------------------------------------ the inputs
SP == " "

\* the lines the input source may type
Lines ==
  { <<"help">>,
    <<"TIME">>,
    <<"Date">>,
    <<"sysinfo">>,
    <<"clear">>,
    <<"Exit", SP, "now">>,
    <<"cd">>,
    <<"cd", SP, "..">>,
    <<"CD", SP, "b">>,
    <<"cd", SP, "a">>,
    <<"ls">>,
    <<"DIR", SP, "b">>,
    <<"CMD">>,
    <<"cmd", SP, "x", SP, SP, "y">>,
    <<SP, "foo", SP>>,
    <<SP>> }

\* ------------------------------------------------------ string functions
RECURSIVE LStrip(_)
\* str.lstrip(): drop the leading whitespace
LStrip(s) == IF s # <<>> /\ Head(s) = SP THEN LStrip(Tail(s)) ELSE s

RECURSIVE RStrip(_)
\* str.rstrip(): drop the trailing whitespace
RStrip(s) ==
  IF s # <<>> /\ s[Len(s)] = SP THEN RStrip(SubSeq(s, 1, Len(s) - 1)) ELSE s

\* str.strip()
Strip(s) == RStrip(LStrip(s))

\* str.split(): the whitespace-delimited tokens, in order
Split(s) == SelectSeq(s, LAMBDA c : c # SP)

RECURSIVE Join(_)
\* " ".join(parts)
Join(parts) ==
  IF parts = <<>> THEN <<>>
  ELSE IF Len(parts) = 1 THEN parts
  ELSE <<Head(parts), SP>> \o Join(Tail(parts))

\* str.lower() on the tokens of the alphabet
Lower(t) ==
  CASE t = "TIME" -> "time"
    [] t = "Date" -> "date"
    [] t = "DIR" -> "dir"
    [] t = "CMD" -> "cmd"
    [] t = "Exit" -> "exit"
    [] t = "CD" -> "cd"
    [] OTHER -> t

\* parts = cmd.split()
Parts(cmd) == Split(cmd)

\* MainCmd without .lower(): the comparison is case-sensitive
MainCmdCaseSensitive(cmd) == IF Parts(cmd) # <<>> THEN Parts(cmd)[1] ELSE ""

\* main_cmd = parts[0].lower() if parts else ""
MainCmd(cmd) == IF Parts(cmd) # <<>> THEN Lower(Parts(cmd)[1]) ELSE ""

\* Branch with the test of the clear branch left out, so that clear falls
\* into the branch below it
BranchSlip(cmd) ==
  IF cmd = <<>> THEN "empty"
  ELSE LET m == MainCmd(cmd) IN
    CASE m = "help" -> "help"
      [] m = "time" -> "time"
      [] m = "date" -> "date"
      [] m = "sysinfo" -> "sysinfo"
      [] m \in {"clear", "exit"} -> "exit"
      [] m = "cd" -> "cd"
      [] m \in {"dir", "ls"} -> "dir"
      [] m = "cmd" -> "cmd"
      [] OTHER -> "run"

\* the branch of the if/elif chain of execute_command that a command takes
Branch(cmd) ==
  IF cmd = <<>> THEN "empty"
  ELSE LET m == MainCmd(cmd) IN
    CASE m = "help" -> "help"
      [] m = "time" -> "time"
      [] m = "date" -> "date"
      [] m = "sysinfo" -> "sysinfo"
      [] m = "clear" -> "clear"
      [] m = "exit" -> "exit"
      [] m = "cd" -> "cd"
      [] m \in {"dir", "ls"} -> "dir"
      [] m = "cmd" -> "cmd"
      [] OTHER -> "run"

\* ------------------------------------------------------- the file system
StartDir == <<"a">>
LeafDir == <<"a", "b">>

\* the directories of the host, the leaf present or removed
DirsWith(leaf) == {<<>>, <<"a">>} \cup (IF leaf THEN {LeafDir} ELSE {})

\* the names os.listdir returns for a directory, in the host's order
Entries(d, leaf) ==
  CASE d = <<>> -> <<"a">>
    [] d = <<"a">> -> IF leaf THEN <<"b", "f.txt">> ELSE <<"f.txt">>
    [] OTHER -> <<>>

\* Resolve losing the last component of a joined name
ResolveDropsName(d, path) ==
  IF path = ".." THEN (IF d = <<>> THEN <<>> ELSE SubSeq(d, 1, Len(d) - 1))
  ELSE d

\* os.path.abspath(os.path.join(cwd, path)) for a one-component path
Resolve(d, path) ==
  IF path = ".." THEN (IF d = <<>> THEN <<>> ELSE SubSeq(d, 1, Len(d) - 1))
  ELSE IF path = "." THEN d
  ELSE Append(d, path)

\* ------------------------------------------------------------- the state
VARIABLES
  cwd,         \* self.cwd, the Session's currentDirectory
  oscwd,       \* the working directory of the host process (os.chdir)
  leafExists,  \* whether LeafDir is present on the host
  destroyed,   \* self.destroy() has run: the Session is Terminated
  box,         \* state of self.output_box: "normal" or "disabled"
  transcript,  \* the content of self.output_box: <<w, k>>, k = 0 the echo
               \* of submission w, k >= 1 the k-th character of its output
  nsub,        \* number of lines submitted so far
  nOk,         \* number of assignments to self.cwd made so far
  workers      \* the worker thread of every submission

vars ==
  <<cwd, oscwd, leafExists, destroyed, box, transcript, nsub, nOk, workers>>

Dirs == DirsWith(leafExists)

NoText == [kind |-> "none", arg |-> <<>>]

\* The thread of a line not yet submitted.  pc is the statement the thread
\* is at, line the entry as typed, cmd its argument, text the argument of
\* its _typing_effect call, idx the characters typed so far, newPath the
\* new_path of a cd.  The rest records what happened: subCwd and subOk are
\* cwd and nOk when the line was submitted, readOk is nOk when a cd without
\* argument read self.cwd, afterExit whether an exit had typed its farewell
\* before the submission, chdirOk whether os.chdir succeeded, run the
\* calls of run_system_command, calls the number of _typing_effect calls,
\* out and err the streams communicate() returned.
IdleWorker ==
  [pc |-> "idle", line |-> <<>>, cmd |-> <<>>, text |-> NoText, idx |-> 0,
   newPath |-> <<>>, subCwd |-> <<>>, subOk |-> 0, readOk |-> 0,
   afterExit |-> FALSE, chdirOk |-> FALSE, run |-> <<>>, calls |-> 0,
   out |-> <<>>, err |-> <<>>]

Finished(w) == workers[w].pc \in {"done", "crashed"}
InFlight(w) == workers[w].pc \notin {"idle", "done", "crashed"}
ChildRunning(w) == workers[w].pc = "communicate"

\* the farewell of an exit submission has been typed to its end
FarewellProduced(w) ==
  /\ workers[w].text.kind = "farewell"
  /\ workers[w].pc \in {"exit_destroy", "done"}

Init ==
  /\ cwd = StartDir
  /\ oscwd = StartDir
  /\ leafExists = TRUE
  /\ destroyed = FALSE
  /\ box = "disabled"
  /\ transcript = << <<0, 0>> >>
  /\ nsub = 0
  /\ nOk = 0
  /\ workers = [w \in Workers |-> IdleWorker]

\* ------------------------------------------------- process_command (GUI)
\* process_command refusing a line while an earlier thread is running
process_commandSerial(line) ==
  /\ ~destroyed
  /\ nsub < MaxCmds
  /\ \A v \in Workers : ~InFlight(v)
  /\ LET w == nsub + 1 IN
       /\ nsub' = w
       /\ transcript' = Append(transcript, <<w, 0>>)
       /\ box' = "disabled"
       /\ workers' = [workers EXCEPT ![w] =
            [IdleWorker EXCEPT
               !.pc = "start", !.line = line, !.cmd = Strip(line),
               !.subCwd = cwd, !.subOk = nOk,
               !.afterExit = \E v \in Workers : FarewellProduced(v)]]
  /\ UNCHANGED <<cwd, oscwd, leafExists, destroyed, nOk>>

\* The <Return> handler: strip the entry, echo the prompt and the command,
\* start the worker thread.  It runs in the main loop, one step.
process_command(line) ==
  /\ ~destroyed
  /\ nsub < MaxCmds
  /\ LET w == nsub + 1 IN
       /\ nsub' = w
       /\ transcript' = Append(transcript, <<w, 0>>)
       /\ box' = "disabled"
       /\ workers' = [workers EXCEPT ![w] =
            [IdleWorker EXCEPT
               !.pc = "start", !.line = line, !.cmd = Strip(line),
               !.subCwd = cwd, !.subOk = nOk,
               !.afterExit = \E v \in Workers : FarewellProduced(v)]]
  /\ UNCHANGED <<cwd, oscwd, leafExists, destroyed, nOk>>

\* ------------------------------------------------------- _typing_effect
\* the texts handed to _typing_effect inside a try block of the caller
InTry(kind) ==
  kind \in {"changed", "listing", "empty_dir", "run_result", "no_output"}

\* A Tk call on the destroyed application raises.  Inside a try block the
\* handler calls _typing_effect with the error text, which raises again;
\* either way the thread ends with the exception.
Raise(w) ==
  /\ workers' = [workers EXCEPT
       ![w].pc = "crashed",
       ![w].calls = @ + (IF workers[w].pc = "type_begin" THEN 1 ELSE 0)
                      + (IF InTry(workers[w].text.kind) THEN 1 ELSE 0)]
  /\ UNCHANGED <<cwd, oscwd, leafExists, destroyed, box, transcript, nsub, nOk>>

\* self.output_box.configure(state="normal")
TypeBegin(w) ==
  /\ workers[w].pc = "type_begin"
  /\ IF destroyed THEN Raise(w)
     ELSE /\ box' = "normal"
          /\ workers' = [workers EXCEPT
               ![w].pc = "type_char", ![w].idx = 0, ![w].calls = @ + 1]
          /\ UNCHANGED <<cwd, oscwd, leafExists, destroyed, transcript, nsub, nOk>>

\* what insert(END, ..) leaves in the box: a disabled box ignores it
Insert(item) == IF box = "normal" THEN Append(transcript, item) ELSE transcript

\* one round of the loop: insert(END, char); update(); sleep(delay)
TypeChar(w) ==
  /\ workers[w].pc = "type_char"
  /\ workers[w].idx < TypeLen
  /\ IF destroyed THEN Raise(w)
     ELSE /\ transcript' = Insert(<<w, workers[w].idx + 1>>)
          /\ workers' = [workers EXCEPT ![w].idx = @ + 1]
          /\ UNCHANGED <<cwd, oscwd, leafExists, destroyed, box, nsub, nOk>>

\* self.output_box.insert(END, "\n")
TypeNewline(w) ==
  /\ workers[w].pc = "type_char"
  /\ workers[w].idx = TypeLen
  /\ IF destroyed THEN Raise(w)
     ELSE /\ transcript' = Insert(<<w, TypeLen + 1>>)
          /\ workers' = [workers EXCEPT ![w].pc = "type_end"]
          /\ UNCHANGED <<cwd, oscwd, leafExists, destroyed, box, nsub, nOk>>

\* configure(state="disabled"); see("end"); then back in the caller
TypeEnd(w) ==
  /\ workers[w].pc = "type_end"
  /\ IF destroyed THEN Raise(w)
     ELSE /\ box' = "disabled"
          /\ workers' = [workers EXCEPT ![w].pc =
               IF workers[w].text.kind = "farewell" THEN "exit_destroy"
               ELSE "done"]
          /\ UNCHANGED <<cwd, oscwd, leafExists, destroyed, transcript, nsub, nOk>>

\* a handler calls self._typing_effect(text)
Say(w, kind, arg) ==
  workers' = [workers EXCEPT
    ![w].pc = "type_begin", ![w].text = [kind |-> kind, arg |-> arg]]

\* ------------------------------------------------------ execute_command
\* Every handler below is the first step of the thread: the classification
\* of the command (which reads only the thread's own argument) together
\* with the first statement of the selected branch.
Frame == UNCHANGED <<cwd, oscwd, leafExists, destroyed, box, transcript, nsub, nOk>>

Starts(w, branch) ==
  /\ workers[w].pc = "start"
  /\ Branch(workers[w].cmd) = branch

\* ExecEmpty without the early return: the empty command reaches the
\* fallback branch and is handed to run_system_command
ExecEmptyRuns(w) ==
  /\ Starts(w, "empty")
  /\ workers' = [workers EXCEPT
       ![w].pc = "communicate",
       ![w].run = Append(@, [command |-> <<>>, cwd |-> cwd])]
  /\ Frame

\* if not cmd: return
ExecEmpty(w) ==
  /\ Starts(w, "empty")
  /\ workers' = [workers EXCEPT ![w].pc = "done"]
  /\ Frame

\* help, time, date: a text that reads no Session state
ExecStatic(w) ==
  /\ \E b \in {"help", "time", "date"} : Starts(w, b) /\ Say(w, b, <<>>)
  /\ Frame

\* sysinfo: psutil samples the host outside any try block
ExecSysinfo(w) ==
  /\ Starts(w, "sysinfo")
  /\ \E sampled \in BOOLEAN :
       IF sampled THEN Say(w, "sysinfo", <<>>)
       ELSE workers' = [workers EXCEPT ![w].pc = "crashed"]
  /\ Frame

\* clear: configure(state="normal")
ExecClear(w) ==
  /\ Starts(w, "clear")
  /\ IF destroyed THEN Raise(w)
     ELSE /\ box' = "normal"
          /\ workers' = [workers EXCEPT ![w].pc = "clear_delete"]
          /\ UNCHANGED <<cwd, oscwd, leafExists, destroyed, transcript, nsub, nOk>>

\* clear: delete("1.0", END)
ClearDelete(w) ==
  /\ workers[w].pc = "clear_delete"
  /\ IF destroyed THEN Raise(w)
     ELSE /\ transcript' = IF box = "normal" THEN <<>> ELSE transcript
          /\ workers' = [workers EXCEPT ![w].pc = "clear_disable"]
          /\ UNCHANGED <<cwd, oscwd, leafExists, destroyed, box, nsub, nOk>>

\* clear: configure(state="disabled")
ClearDisable(w) ==
  /\ workers[w].pc = "clear_disable"
  /\ IF destroyed THEN Raise(w)
     ELSE /\ box' = "disabled"
          /\ workers' = [workers EXCEPT ![w].pc = "done"]
          /\ UNCHANGED <<cwd, oscwd, leafExists, destroyed, transcript, nsub, nOk>>

\* ExecExit going to self.destroy() without the farewell
ExecExitSilent(w) ==
  /\ Starts(w, "exit")
  /\ workers' = [workers EXCEPT ![w].pc = "exit_destroy"]
  /\ Frame

\* exit: _typing_effect("Shutting down DELTA DOS...")
ExecExit(w) ==
  /\ Starts(w, "exit")
  /\ Say(w, "farewell", <<>>)
  /\ Frame

\* exit: time.sleep(1); self.destroy()
ExitDestroy(w) ==
  /\ workers[w].pc = "exit_destroy"
  /\ IF destroyed THEN Raise(w)
     ELSE /\ destroyed' = TRUE
          /\ workers' = [workers EXCEPT ![w].pc = "done"]
          /\ UNCHANGED <<cwd, oscwd, leafExists, box, transcript, nsub, nOk>>

\* ExecCdShow as the POSIX cd: without argument it goes to the root
ExecCdShowHome(w) ==
  /\ Starts(w, "cd")
  /\ Len(Parts(workers[w].cmd)) = 1
  /\ cwd' = <<>>
  /\ workers' = [workers EXCEPT
       ![w].pc = "type_begin", ![w].text = [kind |-> "cwd", arg |-> <<>>],
       ![w].readOk = nOk]
  /\ UNCHANGED <<oscwd, leafExists, destroyed, box, transcript, nsub, nOk>>

\* cd without argument: _typing_effect(self.cwd)
ExecCdShow(w) ==
  /\ Starts(w, "cd")
  /\ Len(Parts(workers[w].cmd)) = 1
  /\ workers' = [workers EXCEPT
       ![w].pc = "type_begin", ![w].text = [kind |-> "cwd", arg |-> cwd],
       ![w].readOk = nOk]
  /\ Frame

\* cd <path>: new_path = os.path.abspath(os.path.join(self.cwd, parts[1]))
ExecCdResolve(w) ==
  /\ Starts(w, "cd")
  /\ Len(Parts(workers[w].cmd)) > 1
  /\ workers' = [workers EXCEPT
       ![w].pc = "cd_chdir",
       ![w].newPath = Resolve(cwd, Parts(workers[w].cmd)[2])]
  /\ Frame

\* CdChdir without the directory check: a failed os.chdir is swallowed and
\* the assignment to self.cwd follows all the same
CdChdirUnchecked(w) ==
  /\ workers[w].pc = "cd_chdir"
  /\ IF workers[w].newPath \in Dirs
     THEN /\ oscwd' = workers[w].newPath
          /\ workers' = [workers EXCEPT
               ![w].pc = "cd_assign", ![w].chdirOk = TRUE]
     ELSE /\ cwd' = workers[w].newPath
          /\ Say(w, "cd_error", workers[w].newPath)
          /\ UNCHANGED oscwd
  /\ IF workers[w].newPath \in Dirs THEN UNCHANGED cwd ELSE TRUE
  /\ UNCHANGED <<leafExists, destroyed, box, transcript, nsub, nOk>>

\* cd <path>: os.chdir(new_path), which raises unless new_path is a directory
CdChdir(w) ==
  /\ workers[w].pc = "cd_chdir"
  /\ IF workers[w].newPath \in Dirs
     THEN /\ oscwd' = workers[w].newPath
          /\ workers' = [workers EXCEPT
               ![w].pc = "cd_assign", ![w].chdirOk = TRUE]
     ELSE /\ Say(w, "cd_error", workers[w].newPath)
          /\ UNCHANGED oscwd
  /\ UNCHANGED <<cwd, leafExists, destroyed, box, transcript, nsub, nOk>>

\* cd <path>: self.cwd = new_path
CdAssign(w) ==
  /\ workers[w].pc = "cd_assign"
  /\ cwd' = workers[w].newPath
  /\ nOk' = nOk + 1
  /\ workers' = [workers EXCEPT ![w].pc = "cd_prompt"]
  /\ UNCHANGED <<oscwd, leafExists, destroyed, box, transcript, nsub>>

\* cd <path>: prompt_label.configure(..); the text reads self.cwd again
CdPrompt(w) ==
  /\ workers[w].pc = "cd_prompt"
  /\ IF destroyed
     THEN workers' = [workers EXCEPT ![w].pc = "crashed", ![w].calls = @ + 1]
     ELSE Say(w, "changed", cwd)
  /\ Frame

\* the line separator of an output text
NL == "\n"

RECURSIVE JoinLinesTrailing(_)
\* JoinLines ending every item with the separator, the last one too
JoinLinesTrailing(items) ==
  IF items = <<>> THEN <<>>
  ELSE <<Head(items), NL>> \o JoinLinesTrailing(Tail(items))

RECURSIVE JoinLines(_)
\* "\n".join(items)
JoinLines(items) ==
  IF items = <<>> THEN <<>>
  ELSE IF Len(items) = 1 THEN items
  ELSE <<Head(items), NL>> \o JoinLines(Tail(items))

\* dir / ls: items = os.listdir(self.cwd); output = "\n".join(items);
\* _typing_effect(output if output else "(empty directory)")
ExecDir(w) ==
  /\ Starts(w, "dir")
  /\ IF cwd \notin Dirs THEN Say(w, "list_error", cwd)
     ELSE IF JoinLines(Entries(cwd, leafExists)) = <<>>
     THEN Say(w, "empty_dir", <<>>)
     ELSE Say(w, "listing", JoinLines(Entries(cwd, leafExists)))
  /\ Frame

\* ExecCmdUsage without the test of len(parts): " ".join([]) is handed to
\* run_system_command
ExecCmdUsageRuns(w) ==
  /\ Starts(w, "cmd")
  /\ Len(Parts(workers[w].cmd)) < 2
  /\ workers' = [workers EXCEPT
       ![w].pc = "communicate",
       ![w].run = Append(@, [command |-> <<>>, cwd |-> cwd])]
  /\ Frame

\* cmd without argument: the usage line
ExecCmdUsage(w) ==
  /\ Starts(w, "cmd")
  /\ Len(Parts(workers[w].cmd)) < 2
  /\ Say(w, "usage", <<>>)
  /\ Frame

\* the command line a submission hands to run_system_command
RunArg(cmd) ==
  IF Branch(cmd) = "cmd" THEN Join(Tail(Parts(cmd))) ELSE cmd

\* run_system_command: subprocess.Popen(command, shell=True, cwd=self.cwd),
\* which raises when the directory is gone
run_system_command(w) ==
  /\ \/ Starts(w, "cmd") /\ Len(Parts(workers[w].cmd)) >= 2
     \/ Starts(w, "run")
  /\ LET call == [command |-> RunArg(workers[w].cmd), cwd |-> cwd] IN
       IF cwd \in Dirs
       THEN workers' = [workers EXCEPT
              ![w].pc = "communicate", ![w].run = Append(@, call)]
       ELSE workers' = [workers EXCEPT
              ![w].pc = "type_begin", ![w].run = Append(@, call),
              ![w].text = [kind |-> "run_error", arg |-> cwd]]
  /\ Frame

\* the standard output and the standard error a child may leave
Streams == {<<>>, <<"o">>}
ErrStreams == {<<>>, <<"e">>}

\* Communicate putting the error stream first
CommunicateErrFirst(w) ==
  /\ workers[w].pc = "communicate"
  /\ \E out \in Streams, err \in ErrStreams :
       workers' = [workers EXCEPT
         ![w].pc = "type_begin", ![w].out = out, ![w].err = err,
         ![w].text = IF out # <<>> \/ err # <<>>
                     THEN [kind |-> "run_result", arg |-> err \o out]
                     ELSE [kind |-> "no_output", arg |-> <<>>]]
  /\ Frame

\* process.communicate() returns when the child has ended:
\* result = out + err if (out or err) else "(no output)"
Communicate(w) ==
  /\ workers[w].pc = "communicate"
  /\ \E out \in Streams, err \in ErrStreams :
       workers' = [workers EXCEPT
         ![w].pc = "type_begin", ![w].out = out, ![w].err = err,
         ![w].text = IF out # <<>> \/ err # <<>>
                     THEN [kind |-> "run_result", arg |-> out \o err]
                     ELSE [kind |-> "no_output", arg |-> <<>>]]
  /\ Frame

\* ------------------------------------------------------------- the host
\* a process of the host removes or creates the leaf directory
HostRmdir ==
  /\ leafExists
  /\ leafExists' = FALSE
  /\ UNCHANGED <<cwd, oscwd, destroyed, box, transcript, nsub, nOk, workers>>

HostMkdir ==
  /\ ~leafExists
  /\ leafExists' = TRUE
  /\ UNCHANGED <<cwd, oscwd, destroyed, box, transcript, nsub, nOk, workers>>

\* ------------------------------------------------------ the specification
\* a step of the thread of submission w
WorkerStep(w) ==
  \/ ExecEmpty(w)
  \/ ExecStatic(w)
  \/ ExecSysinfo(w)
  \/ ExecClear(w)
  \/ ClearDelete(w)
  \/ ClearDisable(w)
  \/ ExecExit(w)
  \/ ExitDestroy(w)
  \/ ExecCdShow(w)
  \/ ExecCdResolve(w)
  \/ CdChdir(w)
  \/ CdAssign(w)
  \/ CdPrompt(w)
  \/ ExecDir(w)
  \/ ExecCmdUsage(w)
  \/ run_system_command(w)
  \/ TypeBegin(w)
  \/ TypeChar(w)
  \/ TypeNewline(w)
  \/ TypeEnd(w)

Next ==
  \/ \E line \in Lines : process_command(line)
  \/ \E w \in Workers : WorkerStep(w)
  \/ \E w \in Workers : Communicate(w)
  \/ HostRmdir
  \/ HostMkdir

Spec == Init /\ [][Next]_vars

\* os.getcwd() at start-up is whatever directory the program is started in
InitAnyStart ==
  /\ cwd \in DirsWith(TRUE)
  /\ oscwd = cwd
  /\ leafExists = TRUE
  /\ destroyed = FALSE
  /\ box = "disabled"
  /\ transcript = << <<0, 0>> >>
  /\ nsub = 0
  /\ nOk = 0
  /\ workers = [w \in Workers |-> IdleWorker]

SpecAnyStart == InitAnyStart /\ [][Next]_vars

\* The scheduler runs every thread that can take a step; nothing makes a
\* child process end.
FairSpec == Spec /\ \A w \in Workers : WF_vars(WorkerStep(w))

\* --------------------------------------------------------------- typing
TypeOK ==
  /\ cwd \in DirsWith(TRUE)
  /\ oscwd \in DirsWith(TRUE)
  /\ box \in {"normal", "disabled"}
  /\ nsub \in 0..MaxCmds
  /\ \A w \in Workers : workers[w].pc = "idle" <=> w > nsub

\* ------------------------------------------------------------ the claims
\* a line whose first token is no built-in
IsPassThrough(line) == Parts(line) # <<>> /\ Branch(Strip(line)) = "run"

\* the thread of w has handed its command to run_system_command
Ran(w) == workers[w].run # <<>>

\* C1: at most one submitted command is being processed at any time: no
\* submission is dispatched while the thread of an earlier one has not
\* finished.
C1_OneInFlight == Cardinality({w \in Workers : InFlight(w)}) <= 1

\* C2: a pass-through line is handed to the Process Runner exactly once, as
\* the raw line that was typed and with the directory that was current
\* when the line was submitted.
C2_RawLineSubmitCwd ==
  \A w \in Workers :
    IsPassThrough(workers[w].line) /\ workers[w].pc \notin {"idle", "start"}
      => workers[w].run =
           << [command |-> workers[w].line, cwd |-> workers[w].subCwd] >>

\* a step in which the os.chdir of the cd of w fails
CdFails(w) ==
  /\ workers[w].pc = "cd_chdir"
  /\ workers'[w].pc # "cd_chdir"
  /\ workers[w].newPath \notin Dirs

\* C3: a cd whose resolved path is no directory leaves currentDirectory as
\* it was and hands a failure line to the display; a cd without argument
\* submitted after it, with no assignment to currentDirectory in between,
\* shows the directory the failed cd was submitted in.
C3_FailedCdKeepsCwd ==
  /\ [][\A w \in Workers : CdFails(w) =>
          /\ cwd' = cwd
          /\ workers'[w].pc = "type_begin"
          /\ workers'[w].text = [kind |-> "cd_error", arg |-> workers[w].newPath]
       ]_vars
  /\ [](\A w1, w2 \in Workers :
          /\ w1 < w2
          /\ workers[w1].text.kind = "cd_error"
          /\ workers[w2].text.kind = "cwd"
          /\ workers[w2].readOk = workers[w1].subOk
          => workers[w2].text.arg = workers[w1].subCwd)

C3_Witness ==
  \E w1, w2 \in Workers :
    /\ w1 < w2
    /\ workers[w1].text.kind = "cd_error"
    /\ workers[w1].pc = "done"
    /\ workers[w2].text = [kind |-> "cwd", arg |-> workers[w1].subCwd]
    /\ workers[w2].pc = "done"
    /\ cwd = workers[w1].subCwd

\* C4: currentDirectory is the start-up directory or a path on which the
\* os.chdir of some cd succeeded; it is never a path that failed the check.
C4_CwdWasValid ==
  \/ cwd = StartDir
  \/ \E w \in Workers : workers[w].chdirOk /\ workers[w].newPath = cwd

C4_Witness ==
  /\ cwd # StartDir
  /\ \E w \in Workers : workers[w].text.kind = "cd_error" /\ workers[w].pc = "done"

\* C5: only the assignment of a cd <path> whose os.chdir succeeded changes
\* currentDirectory; no other step of any command does.
C5_OnlyCdChangesCwd ==
  [][cwd' # cwd =>
       \E w \in Workers :
         /\ MainCmd(workers[w].cmd) = "cd"
         /\ Len(Parts(workers[w].cmd)) > 1
         /\ workers[w].chdirOk
         /\ workers[w].pc = "cd_assign"
         /\ workers'[w].pc = "cd_prompt"
         /\ cwd' = workers[w].newPath
    ]_vars

C5_Witness ==
  /\ cwd # StartDir
  /\ \E w \in Workers :
       /\ workers[w].pc = "done"
       /\ workers[w].subCwd = cwd
       /\ Branch(workers[w].cmd) \in {"cd", "dir", "cmd", "run", "help", "clear"}
       /\ ~workers[w].chdirOk

\* a step in which the Session goes from Active to Terminated
Terminates == ~destroyed /\ destroyed'

\* C6: an exit submitted while the Session is Active, in any letter case
\* and with any further tokens, hands the farewell line to the display,
\* types it to its end and only then terminates the Session; under a fair
\* scheduler every exit in flight leads to the terminated Session, whatever
\* the directory and the other commands in flight.
C6_ExitTerminates ==
  /\ [](\A w \in Workers :
          MainCmd(workers[w].cmd) = "exit" /\ workers[w].pc \notin {"idle", "start"}
            => workers[w].text = [kind |-> "farewell", arg |-> <<>>])
  /\ [][Terminates =>
          \E w \in Workers :
            /\ workers[w].pc = "exit_destroy"
            /\ workers'[w].pc = "done"
            /\ FarewellProduced(w)
            /\ workers[w].calls = 1
       ]_vars
  /\ \A w \in Workers :
       (MainCmd(workers[w].cmd) = "exit" /\ InFlight(w)) ~> destroyed

C6_Witness ==
  /\ destroyed
  /\ \E w, v \in Workers :
       /\ workers[w].line = <<"Exit", SP, "now">>
       /\ workers[w].pc = "done"
       /\ ChildRunning(v)

\* C7: only the destroy step of an exit submission takes the Session from
\* Active to Terminated; no failing command and no other command does.
C7_OnlyExitTerminates ==
  [][Terminates =>
       \E w \in Workers :
         /\ MainCmd(workers[w].cmd) = "exit"
         /\ workers[w].pc = "exit_destroy"
         /\ workers'[w].pc = "done"
    ]_vars

\* the failure texts of the handlers
FailureKinds == {"cd_error", "list_error", "usage", "run_error"}

C7_Witness ==
  /\ destroyed
  /\ \E w, v \in Workers :
       /\ MainCmd(workers[w].cmd) = "exit" /\ workers[w].pc = "done"
       /\ workers[v].text.kind \in FailureKinds /\ workers[v].pc = "done"
       /\ v < w

\* C8: once an exit has produced its farewell line no later submission is
\* accepted.
C8_NoSubmissionAfterFarewell == \A w \in Workers : ~workers[w].afterExit

\* C9: every submitted command whose handler has finished or failed has
\* handed exactly one result block to the display (the empty line and
\* clear, whose result is empty, aside).
C9_ExactlyOneResult ==
  \A w \in Workers :
    Finished(w) /\ Branch(workers[w].cmd) \notin {"empty", "clear"}
      => workers[w].calls = 1

\* C10: a child that has not ended blocks only the thread that waits for
\* it: the Session still accepts every line, and every other thread in
\* flight can take its next step and, under a fair scheduler, finishes or
\* comes to wait for a child of its own.
C10_HangingChildBlocksOnlyItsWorker ==
  /\ [](\A w \in Workers : ChildRunning(w) =>
          /\ (~destroyed /\ nsub < MaxCmds) =>
               \A line \in Lines : ENABLED process_command(line)
          /\ \A v \in Workers \ {w} :
               InFlight(v) /\ ~ChildRunning(v) => ENABLED WorkerStep(v))
  /\ \A w, v \in Workers :
       (ChildRunning(w) /\ InFlight(v) /\ ~ChildRunning(v))
         ~> (Finished(v) \/ ChildRunning(v))

C10_Witness ==
  \E w, v \in Workers :
    /\ w < v
    /\ ChildRunning(w)
    /\ workers[v].pc = "done"
    /\ workers[v].text.kind \in {"help", "changed"}
    /\ ~destroyed

\* the lowercased first token of a line as typed, "" when it has none
FirstToken(line) == IF Parts(line) = <<>> THEN "" ELSE Lower(Parts(line)[1])

\* the thread of w has left its first statement
Started(w) == workers[w].pc \notin {"idle", "start"}

\* C11: a line that is the cmd token alone, in any letter case, hands the
\* usage message to the display and never reaches the Process Runner.
C11_CmdAloneUsage ==
  \A w \in Workers :
    FirstToken(workers[w].line) = "cmd" /\ Len(Parts(workers[w].line)) = 1
      => /\ ~Ran(w)
         /\ ~ChildRunning(w)
         /\ Started(w) => workers[w].text = [kind |-> "usage", arg |-> <<>>]

C11_Witness ==
  \E w \in Workers :
    /\ workers[w].line = <<"CMD">>
    /\ workers[w].pc = "done"
    /\ workers[w].calls = 1
    /\ ~Ran(w)

\* the line as typed without its first token and the blanks around it
RestOfLine(line) == LStrip(Tail(Strip(line)))

\* C12: for cmd <rest> the Process Runner is called once with the line as
\* typed less its leading cmd token, character for character, internal
\* spacing included.
C12_CmdRestVerbatim ==
  \A w \in Workers :
    /\ FirstToken(workers[w].line) = "cmd"
    /\ Len(Parts(workers[w].line)) >= 2
    /\ Started(w)
    => /\ Len(workers[w].run) = 1
       /\ workers[w].run[1].command = RestOfLine(workers[w].line)

\* the submission of w is an empty or whitespace-only line
IsBlank(w) == Parts(workers[w].line) = <<>>

\* a step in which line w is submitted
Submitted(w) == workers[w].pc = "idle" /\ workers'[w].pc = "start"

\* a step of the thread of submission w
Stepped(w) == workers[w].pc # "idle" /\ workers'[w] # workers[w]

\* what no step of a blank submission touches
BlankFrame(w) ==
  /\ cwd' = cwd
  /\ oscwd' = oscwd
  /\ destroyed' = destroyed
  /\ workers'[w].run = <<>>
  /\ workers'[w].calls = 0
  /\ workers'[w].text = NoText

\* C13 as claimed: submitting an empty or whitespace-only line adds nothing
\* to the transcript, runs no process and leaves currentDirectory and the
\* Active state unchanged.
C13_BlankAddsNothing ==
  [][\A w \in Workers :
       /\ (Submitted(w) /\ IsBlank(w)') => (transcript' = transcript /\ BlankFrame(w))
       /\ (Stepped(w) /\ IsBlank(w)) => (transcript' = transcript /\ BlankFrame(w))
    ]_vars

\* C13 amended: submitting an empty or whitespace-only line adds the echo
\* of the prompt to the transcript and nothing else; no output is typed,
\* no process is run, currentDirectory and the Active state are unchanged,
\* and the thread returns at once.
C13_BlankAddsOnlyEcho ==
  [][\A w \in Workers :
       /\ (Submitted(w) /\ IsBlank(w)') =>
            (transcript' = Append(transcript, <<w, 0>>) /\ BlankFrame(w))
       /\ (Stepped(w) /\ IsBlank(w)) =>
            (transcript' = transcript /\ BlankFrame(w) /\ workers'[w].pc = "done")
    ]_vars

C13_Witness ==
  \E w \in Workers :
    /\ workers[w].line = <<SP>>
    /\ workers[w].pc = "done"
    /\ transcript[Len(transcript)] = <<w, 0>>
    /\ ~destroyed

\* the number of lines of an output text
LinesOf(arg) == 1 + Len(SelectSeq(arg, LAMBDA c : c = NL))

\* how often a name occurs in an output text
Occurrences(name, arg) == Len(SelectSeq(arg, LAMBDA c : c = name))

\* a step in which the thread of a dir or ls reads the directory
DirStep(w) ==
  /\ workers[w].pc = "start"
  /\ workers'[w].pc # "start"
  /\ FirstToken(workers[w].line) \in {"dir", "ls"}

\* C14: dir / ls hands the display one line, the placeholder, for a
\* directory without entries; for a directory with N >= 1 entries a text of
\* exactly N lines in which every entry name occurs exactly once and
\* nothing else does; a failure line when the directory cannot be read.
C14_Listing ==
  [][\A w \in Workers : DirStep(w) =>
       LET items == Entries(cwd, leafExists)
           text == workers'[w].text
       IN /\ workers'[w].pc = "type_begin"
          /\ IF cwd \notin Dirs THEN text.kind = "list_error"
             ELSE IF items = <<>>
             THEN text = [kind |-> "empty_dir", arg |-> <<>>] /\ LinesOf(text.arg) = 1
             ELSE /\ text.kind = "listing"
                  /\ LinesOf(text.arg) = Len(items)
                  /\ \A i \in 1..Len(items) : Occurrences(items[i], text.arg) = 1
                  /\ Len(text.arg) = 2 * Len(items) - 1
    ]_vars

C14_Witness ==
  \E w \in Workers :
    /\ workers[w].line = <<"ls">>
    /\ workers[w].text = [kind |-> "listing", arg |-> <<"b", NL, "f.txt">>]
    /\ workers[w].pc = "done"

\* a step in which the thread of w calls subprocess.Popen
PopenStep(w) == workers[w].run = <<>> /\ workers'[w].run # <<>>

\* C15: the result of the Process Runner is the standard output followed by
\* the standard error when one of them is not empty and the no-output
\* placeholder when both are; a Popen that cannot be launched becomes a
\* failure line handed to the display, never an escaping exception.
C15_RunResult ==
  /\ [](\A w \in Workers :
          workers[w].text.kind \in {"run_result", "no_output"} =>
            workers[w].text =
              IF workers[w].out # <<>> \/ workers[w].err # <<>>
              THEN [kind |-> "run_result", arg |-> workers[w].out \o workers[w].err]
              ELSE [kind |-> "no_output", arg |-> <<>>])
  /\ [][\A w \in Workers : PopenStep(w) =>
          IF cwd \in Dirs THEN workers'[w].pc = "communicate"
          ELSE /\ workers'[w].pc = "type_begin"
               /\ workers'[w].text = [kind |-> "run_error", arg |-> cwd]
       ]_vars

C15_Witness ==
  \E w, v \in Workers :
    /\ workers[w].out = <<"o">> /\ workers[w].err = <<"e">>
    /\ workers[w].text.arg = <<"o", "e">>
    /\ workers[w].pc = "done"
    /\ workers[v].out = <<>> /\ workers[v].err = <<>>
    /\ workers[v].text.kind = "no_output"
    /\ workers[v].pc = "done"

\* the thread of w has made its assignment to self.cwd
Assigned(w) == workers[w].chdirOk /\ workers[w].pc # "cd_assign"

\* w1 is a cd .. submitted in a directory with a parent, w2 a cd to the
\* name of that directory submitted after the assignment of w1; both have
\* succeeded and no other assignment to self.cwd was made meanwhile
RoundTrip(w1, w2) ==
  /\ w1 < w2
  /\ FirstToken(workers[w1].line) = "cd"
  /\ Len(Parts(workers[w1].line)) = 2
  /\ Parts(workers[w1].line)[2] = ".."
  /\ workers[w1].subCwd # <<>>
  /\ FirstToken(workers[w2].line) = "cd"
  /\ Len(Parts(workers[w2].line)) = 2
  /\ Parts(workers[w2].line)[2] = workers[w1].subCwd[Len(workers[w1].subCwd)]
  /\ Assigned(w1)
  /\ Assigned(w2)
  /\ workers[w2].subOk = workers[w1].subOk + 1
  /\ nOk = workers[w1].subOk + 2

\* C16: for every currentDirectory D that has a parent, cd .. followed by
\* cd <name of D in its parent>, both succeeding, brings currentDirectory
\* back to exactly D.
C16_RoundTrip ==
  \A w1, w2 \in Workers : RoundTrip(w1, w2) => cwd = workers[w1].subCwd

C16_Witness ==
  \E w1, w2 \in Workers :
    /\ RoundTrip(w1, w2)
    /\ workers[w1].subCwd = LeafDir
    /\ workers[w1].pc = "done"
    /\ workers[w2].pc = "done"
    /\ cwd = LeafDir

\* C17: when the CPU / memory sampling fails during sysinfo, a line that
\* describes the error is handed to the display (and the Session stays
\* Active).
C17_SysinfoFailureLine ==
  \A w \in Workers :
    FirstToken(workers[w].line) = "sysinfo" /\ Started(w)
      => workers[w].text.kind # "none" /\ workers[w].pc # "crashed"

\* the built-ins of C18 and the texts each of them hands to the display
Builtins == {"help", "time", "date", "sysinfo", "clear", "exit", "cd", "dir", "ls"}

KindsOf(b) ==
  CASE b = "cd" -> {"cwd", "changed", "cd_error"}
    [] b \in {"dir", "ls"} -> {"listing", "empty_dir", "list_error"}
    [] b = "exit" -> {"farewell"}
    [] b = "clear" -> {}
    [] OTHER -> {b}

\* C18: a line whose first token is, in any letter case, one of the
\* built-ins is handled by that built-in and never reaches the Process
\* Runner, whatever tokens follow.
C18_BuiltinsNeverRun ==
  \A w \in Workers :
    FirstToken(workers[w].line) \in Builtins =>
      /\ ~Ran(w)
      /\ ~ChildRunning(w)
      /\ workers[w].text.kind \in KindsOf(FirstToken(workers[w].line)) \cup {"none"}
      /\ workers[w].pc = "done" /\ FirstToken(workers[w].line) # "clear"
           => workers[w].text.kind # "none"

C18_Witness ==
  \E w, v \in Workers :
    /\ workers[w].line = <<"DIR", SP, "b">>
    /\ workers[w].text.kind = "listing"
    /\ workers[w].pc = "done"
    /\ workers[v].line = <<"TIME">>
    /\ workers[v].text.kind = "time"
    /\ workers[v].pc = "done"

\* the thread of a cd is in flight
CdInFlight(w) == FirstToken(workers[w].line) = "cd" /\ InFlight(w)

\* C19: whenever no cd is in flight the working directory of the host
\* process equals self.cwd.
C19_HostCwdFollows ==
  (\A w \in Workers : ~CdInFlight(w)) => oscwd = cwd

\* a step in which the typing loop of w inserts a character or the newline
InsertStep(w) ==
  /\ workers[w].pc = "type_char"
  /\ workers'[w] # workers[w]
  /\ workers'[w].pc # "crashed"

\* C20: whenever the typing routine inserts a character the box is
\* writable, and the character lands right behind the previous character
\* of the same block.
C20_BlockContiguous ==
  [][\A w \in Workers : InsertStep(w) =>
       /\ box = "normal"
       /\ transcript' = Append(transcript, <<w, workers[w].idx + 1>>)
       /\ workers[w].idx >= 1 =>
            transcript[Len(transcript)] = <<w, workers[w].idx>>
    ]_vars

====
